---- MODULE Spec2Model ----
(***************************************************************************)
(* Model of jsonable_boundaries.py: the default hook jsonable_handler, the *)
(* round trip serial_deserial (simplejson dumps + loads), the decorators   *)
(* schema and validate, the example consumers and assert_ijsonable.        *)
(*                                                                         *)
(* A Python object is a record [k, n, s, e, j, c]:                         *)
(*   k  its kind (type)            n  its integer value                    *)
(*   s  its text (a str, or what isoformat() returns)                      *)
(*   e  its elements, in iteration order (what is left, for an iterator)   *)
(*   j  <<what to_json() returns>>  c  the capabilities of a custom object *)
(* For a datetime, n names its tzinfo object (0: a tzinfo no other         *)
(* datetime shares, or none).                                              *)
(* JSON text is a sequence of tokens [t, n, s].                            *)
(***************************************************************************)
EXTENDS Integers, Sequences, FiniteSets, TLC

\* ------------------------------------------------------------- bounds
MaxInt == 2
MaxLen == 2

\* ------------------------------------------------------------- objects
V(k, n, s, e, j, c) == [k |-> k, n |-> n, s |-> s, e |-> e, j |-> j, c |-> c]

PyInt(n)        == V("int", n, "", <<>>, <<>>, {})
FakeNumber(n) == V("fake_number", n, "", <<>>, <<>>, {})
PyBool(b)       == V("bool", IF b THEN 1 ELSE 0, "", <<>>, <<>>, {})
PyStr(s)        == V("str", 0, s, <<>>, <<>>, {})
PyNone          == V("None", 0, "", <<>>, <<>>, {})
TypeInt       == V("type", 0, "int", <<>>, <<>>, {})
PyList(e)       == V("list", 0, "", e, <<>>, {})
PyTuple(e)      == V("tuple", 0, "", e, <<>>, {})
XRange(e)     == V("xrange", 0, "", e, <<>>, {})
Iter(e)       == V("iter", 0, "", e, <<>>, {})
Item(key, v)  == V("item", 0, key, <<v>>, <<>>, {})
PyDict(items)   == V("dict", 0, "", items, <<>>, {})
\* a collections.OrderedDict, its members in the order they were inserted
OrderedDict(items) == V("OrderedDict", 0, "", items, <<>>, {})
DateTime(s)   == V("datetime", 0, s, <<>>, <<>>, {"isoformat"})
\* a datetime whose tzinfo is the object numbered tz (1, 2, ...)
DateTimeTz(s, tz) == V("datetime", tz, s, <<>>, <<>>, {"isoformat"})
\* as what to_json() returns: the very object whose to_json it is
Itself        == V("itself", 0, "", <<>>, <<>>, {})
\* an instance of a user class: caps among isoformat, to_json, __iter__
\* (j is <<>> for a class without to_json)
Obj(caps, iso, j, elems) == V("obj", 0, iso, elems, j, caps)

\* the characters of a str, in order (what iterating the str yields)
Chars(s) == [i \in 1..Len(s) |-> SubSeq(s, i, i)]

\* ------------------------------------------------------------- outcomes
NoSchema     == [type |-> "missing", items |-> "none"]
NumberSchema == [type |-> "number", items |-> "none"]
ArraySchema  == [type |-> "array", items |-> "number"]
Schemas      == {NumberSchema, ArraySchema}

Returned(v)  == [exc |-> "none", val |-> v, schema |-> NoSchema]
Raised(x, v) == [exc |-> x, val |-> v, schema |-> NoSchema]
ValidationError(instance, sch) ==
    [exc |-> "ValidationError", val |-> instance, schema |-> sch]

\* ------------------------------------------------------------- jsonable_handler
HasAttr(obj, name) == name \in obj.c

IsIterable(obj) ==
    \/ obj.k \in {"list", "tuple", "xrange", "iter", "dict", "OrderedDict", "str"}
    \/ obj.k = "obj" /\ "__iter__" \in obj.c

\* the objects a for-loop over obj yields
Elements(obj) ==
    IF obj.k \in {"dict", "OrderedDict"}
      THEN [i \in 1..Len(obj.e) |-> PyStr(obj.e[i].s)]
    ELSE IF obj.k = "str" THEN [i \in 1..Len(Chars(obj.s)) |-> PyStr(Chars(obj.s)[i])]
    ELSE obj.e

\* obj once a loop has taken its first n elements: only an iterator changes
Consumed(obj, n) ==
    IF obj.k = "iter" THEN [obj EXCEPT !.e = SubSeq(obj.e, n + 1, Len(obj.e))]
    ELSE obj

\* jsonable_handler trying to_json before isoformat
jsonable_handler_ToJsonFirst(obj) ==
    IF HasAttr(obj, "to_json")
      THEN [out |-> Returned(obj.j[1]), after |-> obj]
    ELSE IF HasAttr(obj, "isoformat")
      THEN [out |-> Returned(PyStr(obj.s)), after |-> obj]
    ELSE IF IsIterable(obj)
      THEN [out |-> Returned(PyList(Elements(obj))),
            after |-> Consumed(obj, Len(Elements(obj)))]
    ELSE [out |-> Raised("TypeError", obj), after |-> obj]

\* [out: what the call returns or raises, after: obj once the call is over]
jsonable_handler(obj) ==
    IF HasAttr(obj, "isoformat")
      THEN [out |-> Returned(PyStr(obj.s)), after |-> obj]
    ELSE IF HasAttr(obj, "to_json")
      THEN [out |-> Returned(obj.j[1]), after |-> obj]
    ELSE IF IsIterable(obj)
      THEN [out |-> Returned(PyList(Elements(obj))),
            after |-> Consumed(obj, Len(Elements(obj)))]
    ELSE [out |-> Raised("TypeError", obj), after |-> obj]

\* ------------------------------------------------------------- simplejson
Tok(t, n, s) == [t |-> t, n |-> n, s |-> s]
Punct(s)     == Tok("punct", 0, s)

Encoded(toks, after) ==
    [ok |-> TRUE, toks |-> toks, err |-> Returned(PyNone), after |-> after]
NotEncoded(err, after) ==
    [ok |-> FALSE, toks |-> <<>>, err |-> err, after |-> after]

RECURSIVE EncodeValue(_, _), EncodeSeq(_, _)

\* obj once its default conversion h and the encoding r of the converted
\* value are over
AfterDefault(obj, h, r) ==
    IF obj.k = "iter" THEN h.after
    ELSE IF HasAttr(obj, "isoformat") THEN obj
    ELSE IF HasAttr(obj, "to_json") THEN [obj EXCEPT !.j = <<r.after>>]
    ELSE [obj EXCEPT !.e = r.after.e]

\* a container o whose elements encoded as r, between open and close
EncodeContainer(o, open, close, r) ==
    IF r.ok THEN Encoded(open \o r.toks \o close, [o EXCEPT !.e = r.after])
    ELSE NotEncoded(r.err, [o EXCEPT !.e = r.after])

\* what the default hook returned for o (h), encoded in turn (r)
EncodeConverted(o, h, r) ==
    IF r.ok THEN Encoded(r.toks, AfterDefault(o, h, r))
    ELSE NotEncoded(r.err, AfterDefault(o, h, r))

\* default=jsonable_handler on an object the encoder does not know
EncodeDefault(o, h) ==
    IF h.out.exc # "none" THEN NotEncoded(h.out, h.after)
    ELSE EncodeConverted(o, h, EncodeValue(h.out.val, TRUE))

\* the encoder on one object: the types simplejson writes itself, then the
\* default hook (when one is given) and the encoding of what it returns; an
\* object met again while it is being encoded is a circular reference, which
\* raises ValueError
EncodeValue(o, useDefault) ==
    IF o.k = "str" THEN Encoded(<<Tok("str", 0, o.s)>>, o)
    ELSE IF o.k = "None" THEN Encoded(<<Tok("lit", 0, "null")>>, o)
    ELSE IF o.k = "bool"
      THEN Encoded(<<Tok("lit", 0, IF o.n = 1 THEN "true" ELSE "false")>>, o)
    ELSE IF o.k \in {"int", "fake_number"} THEN Encoded(<<Tok("num", o.n, "")>>, o)
    ELSE IF o.k \in {"list", "tuple"}
      THEN EncodeContainer(o, <<Punct("[")>>, <<Punct("]")>>,
                           EncodeSeq(o.e, useDefault))
    ELSE IF o.k \in {"dict", "OrderedDict"}
      THEN EncodeContainer(o, <<Punct("{")>>, <<Punct("}")>>,
                           EncodeSeq(o.e, useDefault))
    ELSE IF o.k = "item"
      THEN EncodeContainer(o, <<Tok("str", 0, o.s), Punct(":")>>, <<>>,
                           EncodeSeq(o.e, useDefault))
    ELSE IF o.k = "itself" THEN NotEncoded(Raised("ValueError", o), o)
    ELSE IF useDefault THEN EncodeDefault(o, jsonable_handler(o))
    ELSE NotEncoded(Raised("TypeError", o), o)

\* r1, the encoding of the first element, followed by r2, that of the rest
EncodeRest(r1, r2) ==
    IF r2.ok THEN Encoded(r1.toks \o <<Punct(",")>> \o r2.toks,
                          <<r1.after>> \o r2.after)
    ELSE NotEncoded(r2.err, <<r1.after>> \o r2.after)

EncodeFrom(es, useDefault, r1) ==
    IF ~r1.ok THEN NotEncoded(r1.err, <<r1.after>> \o Tail(es))
    ELSE IF Tail(es) = <<>> THEN Encoded(r1.toks, <<r1.after>>)
    ELSE EncodeRest(r1, EncodeSeq(Tail(es), useDefault))

\* the elements of a container, left to right, stopping at the first failure
EncodeSeq(es, useDefault) ==
    IF es = <<>> THEN Encoded(<<>>, <<>>)
    ELSE EncodeFrom(es, useDefault, EncodeValue(Head(es), useDefault))

\* json.dumps(obj, default=jsonable_handler) and json.dumps(obj)
dumps(obj, useDefault) == EncodeValue(obj, useDefault)

IsPunct(tok, s) == tok.t = "punct" /\ tok.s = s

\* ---- the dict json.loads builds (CPython 2.7, 64-bit, hashes not randomised)
\* A dict iterates its members in the order of the slots of its hash table.
\* A hash is kept as five limbs of 15 bits, low limb first (the fifth limb
\* holds the top 4 bits of the 64).  A table has at most 2^30 slots.
\* the printable ASCII characters from 32 (space) to 95, and from 97 to 126
AsciiLow  == " !\"#$%&'()*+,-./0123456789:;<=>?@ABCDEFGHIJKLMNOPQRSTUVWXYZ[\\]^_"
AsciiHigh == "abcdefghijklmnopqrstuvwxyz{|}~"

IndexIn(c, text) == CHOOSE i \in 1..Len(text) : SubSeq(text, i, i) = c

\* ord(c) of a printable ASCII character
Ord(c) ==
    IF \E i \in 1..Len(AsciiLow) : SubSeq(AsciiLow, i, i) = c
      THEN 31 + IndexIn(c, AsciiLow)
      ELSE 96 + IndexIn(c, AsciiHigh)

RECURSIVE BitXor(_, _)
BitXor(a, b) ==
    IF a = 0 THEN b
    ELSE IF b = 0 THEN a
    ELSE 2 * BitXor(a \div 2, b \div 2) + ((a + b) % 2)

\* x ^ v, for a v below 2^30
XorLow(x, v) ==
    [x EXCEPT ![1] = BitXor(x[1], v % 32768), ![2] = BitXor(x[2], v \div 32768)]

RECURSIVE MulLimbs(_, _, _, _)

\* limb k of 1000003 * x and the limbs above it (1000003 = 30 * 2^15 + 16963),
\* raw being the value of limb k before its carry leaves it
MulFrom(x, k, raw) ==
    IF k = 5 THEN <<raw % 16>>
    ELSE <<raw % 32768>> \o MulLimbs(x, k + 1, x[k], raw \div 32768)

MulLimbs(x, k, prev, carry) == MulFrom(x, k, x[k] * 16963 + prev * 30 + carry)

\* (1000003 * x) mod 2^64
HashMul(x) == MulLimbs(x, 1, 0, 0)

RECURSIVE HashFrom(_, _, _)
\* while (--len >= 0) x = (1000003*x) ^ *p++
HashFrom(s, i, x) ==
    IF i > Len(s) THEN x
    ELSE HashFrom(s, i + 1, XorLow(HashMul(x), Ord(SubSeq(s, i, i))))

\* -1 is no hash value: it becomes -2
HashFix(x) ==
    IF x = <<32767, 32767, 32767, 32767, 15>> THEN [x EXCEPT ![1] = 32766] ELSE x

\* hash(s) of a str, and of the unicode equal to it
string_hash(s) ==
    IF Len(s) = 0 THEN <<0, 0, 0, 0, 0>>
    ELSE HashFix(XorLow(HashFrom(s, 1, <<Ord(SubSeq(s, 1, 1)) * 128, 0, 0, 0, 0>>),
                        Len(s)))

\* perturb >>= PERTURB_SHIFT
Shr5(x) ==
    [i \in 1..5 |-> (x[i] \div 32) + (IF i < 5 THEN (x[i + 1] % 32) * 1024 ELSE 0)]

\* an unused slot of a hash table
NullEntry == V("NULL", 0, "", <<>>, <<>>, {})

EmptyTable(size) == [i \in 0..(size - 1) |-> NullEntry]

\* a dict as it is just made: 8 slots, none used
NewDict == [size |-> 8, used |-> 0, slots |-> EmptyTable(8)]

\* x & mask, for a table of size slots
Masked(x, size) == (x[1] + 32768 * x[2]) % size

\* (i << 2) + i + perturb + 1 under the mask, p being perturb under the mask
NextSlot(i, p, size) ==
    (((((2 * ((2 * i) % size)) % size) + i) % size) + ((p + 1) % size)) % size

RECURSIVE Probe(_, _, _, _, _)
\* the slot for key, looking from slot i on: the first one that is unused or
\* holds key
Probe(slots, size, key, i, perturb) ==
    IF slots[i].k = "NULL" \/ slots[i].s = key THEN i
    ELSE Probe(slots, size, key, NextSlot(i, Masked(perturb, size), size),
               Shr5(perturb))

lookdict(slots, size, key, hash) ==
    Probe(slots, size, key, Masked(hash, size), hash)

RECURSIVE NewSize(_, _)
\* for (newsize = PyDict_MINSIZE; newsize <= minused; newsize <<= 1)
NewSize(n, minused) == IF n > minused THEN n ELSE NewSize(2 * n, minused)

\* an entry put into a table that does not hold its key
insertdict_clean(slots, size, entry) ==
    [slots EXCEPT ![lookdict(slots, size, entry.s, string_hash(entry.s))] = entry]

RECURSIVE Reinsert(_, _, _, _, _)
\* the entries of the old table from slot i on, put into the new table
Reinsert(old, oldsize, i, new, newsize) ==
    IF i = oldsize THEN new
    ELSE IF old[i].k = "NULL" THEN Reinsert(old, oldsize, i + 1, new, newsize)
    ELSE Reinsert(old, oldsize, i + 1, insertdict_clean(new, newsize, old[i]),
                  newsize)

\* the table rebuilt with newsize slots
dictresize(d, newsize) ==
    [size |-> newsize, used |-> d.used,
     slots |-> Reinsert(d.slots, d.size, 0, EmptyTable(newsize), newsize)]

\* a dict that has just taken a new key grows once two thirds are in use:
\* dictresize(mp, (mp->ma_used > 50000 ? 2 : 4) * mp->ma_used)
Grown(d) ==
    IF d.used * 3 >= d.size * 2
      THEN dictresize(d, NewSize(8, (IF d.used > 50000 THEN 2 ELSE 4) * d.used))
      ELSE d

\* item stored in slot i, the slot lookdict found for its key
InsertAt(d, item, i) ==
    IF d.slots[i].k = "NULL"
      THEN Grown([d EXCEPT !.slots[i] = item, !.used = @ + 1])
      ELSE [d EXCEPT !.slots[i] = item]

\* d[key] = value
PyDict_SetItem(d, item) ==
    InsertAt(d, item, lookdict(d.slots, d.size, item.s, string_hash(item.s)))

RECURSIVE MergeFromSeq2(_, _, _)
\* dict(pairs): the pairs stored one after the other
MergeFromSeq2(d, pairs, i) ==
    IF i > Len(pairs) THEN d
    ELSE MergeFromSeq2(PyDict_SetItem(d, pairs[i]), pairs, i + 1)

RECURSIVE SlotItems(_, _)
\* the members of d in iteration order: the used slots from slot i on
SlotItems(d, i) ==
    IF i = d.size THEN <<>>
    ELSE IF d.slots[i].k = "NULL" THEN SlotItems(d, i + 1)
    ELSE <<d.slots[i]>> \o SlotItems(d, i + 1)

\* the dict the decoder makes of the pairs of an object, in text order
DictOfPairs(pairs) == PyDict(SlotItems(MergeFromSeq2(NewDict, pairs, 1), 0))

RECURSIVE ParseValue(_, _), ParseElems(_, _, _), ParseMembers(_, _, _)

\* the value that starts at token i, and the index after it
ParseValue(toks, i) ==
    IF toks[i].t = "num" THEN [val |-> PyInt(toks[i].n), next |-> i + 1]
    ELSE IF toks[i].t = "str" THEN [val |-> PyStr(toks[i].s), next |-> i + 1]
    ELSE IF toks[i].t = "lit"
      THEN [val |-> IF toks[i].s = "null" THEN PyNone
                    ELSE PyBool(toks[i].s = "true"),
            next |-> i + 1]
    ELSE IF IsPunct(toks[i], "[")
      THEN IF IsPunct(toks[i + 1], "]")
             THEN [val |-> PyList(<<>>), next |-> i + 2]
             ELSE ParseElems(toks, i + 1, <<>>)
    ELSE IF IsPunct(toks[i + 1], "}")
      THEN [val |-> PyDict(<<>>), next |-> i + 2]
      ELSE ParseMembers(toks, i + 1, <<>>)

\* r: the element parsed at the head of what is left of an array
ElemsFrom(toks, acc, r) ==
    IF IsPunct(toks[r.next], ",")
      THEN ParseElems(toks, r.next + 1, Append(acc, r.val))
      ELSE [val |-> PyList(Append(acc, r.val)), next |-> r.next + 1]

ParseElems(toks, i, acc) == ElemsFrom(toks, acc, ParseValue(toks, i))

\* r: the value parsed after the key and the colon at i
MembersFrom(toks, i, acc, r) ==
    IF IsPunct(toks[r.next], ",")
      THEN ParseMembers(toks, r.next + 1, Append(acc, Item(toks[i].s, r.val)))
      ELSE [val |-> DictOfPairs(Append(acc, Item(toks[i].s, r.val))),
            next |-> r.next + 1]

ParseMembers(toks, i, acc) == MembersFrom(toks, i, acc, ParseValue(toks, i + 2))

\* json.loads(json_string)
loads(toks) == ParseValue(toks, 1).val

\* json.loads of the text d that json.dumps produced, or the error it raised
Deserialized(d) ==
    IF d.ok THEN [out |-> Returned(loads(d.toks)), after |-> d.after]
    ELSE [out |-> d.err, after |-> d.after]

\* [out: the round-tripped value or the error raised, after: arg afterwards]
serial_deserial(arg) == Deserialized(dumps(arg, TRUE))

\* ------------------------------------------------------------- jsonschema
IsNumber(v) == v.k \in {"int", "fake_number"}

\* jsonschema.validate(instance, sch) returns (TRUE) or raises (FALSE)
Conforms(instance, sch) ==
    IF sch.type = "number" THEN IsNumber(instance)
    ELSE /\ sch.type = "array"
         /\ instance.k = "list"
         /\ \A i \in 1..Len(instance.e) : IsNumber(instance.e[i])

\* ------------------------------------------------------------- consumers
RawFns == {"number_consumer", "number_consumer_no_return", "seq_consumer",
           "number_consumer_bad_return", "client_fn"}

\* x * 2
Mul2(x) ==
    IF x.k \in {"int", "bool"} THEN Returned(PyInt(2 * x.n))
    ELSE IF x.k = "fake_number" THEN Returned(PyInt(2))
    ELSE IF x.k = "str" THEN Returned(PyStr(x.s \o x.s))
    ELSE IF x.k = "list" THEN Returned(PyList(x.e \o x.e))
    ELSE IF x.k = "tuple" THEN Returned(PyTuple(x.e \o x.e))
    ELSE Raised("TypeError", x)

number_consumer(jsonable) == [out |-> Mul2(jsonable), after |-> jsonable]

number_consumer_no_return(jsonable) == [out |-> Returned(PyNone), after |-> jsonable]

\* seq_consumer returning a sequence of its argument's own type
seq_consumer_SameType(jsonable) ==
    IF jsonable.k = "tuple"
      THEN [out |-> Returned(PyTuple([i \in 1..Len(jsonable.e) |->
                                       Mul2(jsonable.e[i]).val])),
            after |-> jsonable]
    ELSE IF ~IsIterable(jsonable)
      THEN [out |-> Raised("TypeError", jsonable), after |-> jsonable]
    ELSE [out |-> Returned(PyList([i \in 1..Len(Elements(jsonable)) |->
                                    Mul2(Elements(jsonable)[i]).val])),
          after |-> Consumed(jsonable, Len(Elements(jsonable)))]

\* the loop over the elements es of jsonable, bad being the indices where
\* x*2 raises: it stops at the first of them
Doubled(jsonable, es, bad) ==
    IF bad = {}
      THEN [out |-> Returned(PyList([i \in 1..Len(es) |-> Mul2(es[i]).val])),
            after |-> Consumed(jsonable, Len(es))]
      ELSE [out |-> Mul2(es[CHOOSE m \in bad : \A o \in bad : m <= o]),
            after |-> Consumed(jsonable, CHOOSE m \in bad : \A o \in bad : m <= o)]

SeqBody(jsonable, es) ==
    Doubled(jsonable, es, {i \in 1..Len(es) : Mul2(es[i]).exc # "none"})

\* [x*2 for x in jsonable]
seq_consumer(jsonable) ==
    IF ~IsIterable(jsonable)
      THEN [out |-> Raised("TypeError", jsonable), after |-> jsonable]
      ELSE SeqBody(jsonable, Elements(jsonable))

number_consumer_bad_return(jsonable) == [out |-> Returned(TypeInt), after |-> jsonable]

\* the body of raw function f on arg
Body(f, arg) ==
    IF f = "number_consumer_no_return" THEN number_consumer_no_return(arg)
    ELSE IF f = "seq_consumer" THEN seq_consumer(arg)
    ELSE IF f = "number_consumer_bad_return" THEN number_consumer_bad_return(arg)
    ELSE number_consumer(arg)

\* ------------------------------------------------------------- Python == and bool()
\* ---- datetime: the fields of the text isoformat() returns,
\* YYYY-MM-DDTHH:MM:SS[.ffffff][+HH:MM]
RECURSIVE NumFrom(_, _, _, _)
NumFrom(s, i, j, acc) ==
    IF i > j THEN acc
    ELSE NumFrom(s, i + 1, j, 10 * acc + Ord(SubSeq(s, i, i)) - 48)

\* the number written in characters i to j of s
Num(s, i, j) == NumFrom(s, i, j, 0)

\* does s end in a UTC offset (an aware datetime)
IsAware(s) ==
    /\ Len(s) >= 25
    /\ SubSeq(s, Len(s) - 5, Len(s) - 5) \in {"+", "-"}
    /\ SubSeq(s, Len(s) - 2, Len(s) - 2) = ":"

\* utcoffset() in minutes
UtcOffset(s) ==
    (IF SubSeq(s, Len(s) - 5, Len(s) - 5) = "-" THEN -1 ELSE 1)
      * (60 * Num(s, Len(s) - 4, Len(s) - 3) + Num(s, Len(s) - 1, Len(s)))

\* the day number of year y, month m, day d (proleptic Gregorian calendar),
\* counting the year from March
DayNumber(y, m, d) ==
    365 * y + (y \div 4) - (y \div 100) + (y \div 400)
      + ((153 * (IF m > 2 THEN m - 3 ELSE m + 9) + 2) \div 5) + d

Days(s) ==
    DayNumber(Num(s, 1, 4) - (IF Num(s, 6, 7) > 2 THEN 0 ELSE 1),
              Num(s, 6, 7), Num(s, 9, 10))

Seconds(s) == 3600 * Num(s, 12, 13) + 60 * Num(s, 15, 16) + Num(s, 18, 19)

Microseconds(s) ==
    IF Len(s) >= 26 /\ SubSeq(s, 20, 20) = "." THEN Num(s, 21, 26) ELSE 0

\* the date and time of day in s, without its UTC offset
WallTime(s) == IF IsAware(s) THEN SubSeq(s, 1, Len(s) - 6) ELSE s

\* two aware datetimes of different tzinfo are equal when they are the same
\* instant
SameInstant(s, u) ==
    /\ Days(s) - Days(u) \in -2..2
    /\ 86400 * (Days(s) - Days(u)) + Seconds(s) - Seconds(u)
         - 60 * (UtcOffset(s) - UtcOffset(u)) = 0
    /\ Microseconds(s) = Microseconds(u)

\* datetime == datetime: two datetimes that share their tzinfo object, and
\* two naive ones, compare by date and time of day; a naive one against an
\* aware one raises TypeError; two aware ones compare as instants
DateTimeCmp(a, b) ==
    IF (a.n # 0 /\ a.n = b.n) \/ (~IsAware(a.s) /\ ~IsAware(b.s))
      THEN (IF WallTime(a.s) = WallTime(b.s) THEN "eq" ELSE "ne")
    ELSE IF IsAware(a.s) # IsAware(b.s) THEN "raise"
    ELSE IF SameInstant(a.s, b.s) THEN "eq" ELSE "ne"

\* ---- a == b for two distinct objects a and b: "eq", "ne", or "raise" when
\* the comparison raises.  Numbers compare by value, str by text.  Two lists
\* of different length are unequal at once, otherwise they compare element by
\* element up to the first difference; two tuples compare element by element
\* over their common length first, and by length when no element differs.  A
\* dict and any other dict compare member by member in the order of the
\* first one's hash table; two OrderedDicts compare that way first, and then
\* by the order of their keys.  An xrange, an iterator and an instance of a
\* class without __eq__ equal only themselves.
RECURSIVE PyCmp(_, _), CmpSeq(_, _, _, _), CmpDict(_, _, _)

\* the index of the member of dict b under key, 0 when it has none
MemberIndex(b, key) ==
    IF \E i \in 1..Len(b.e) : b.e[i].s = key
      THEN CHOOSE i \in 1..Len(b.e) : b.e[i].s = key
      ELSE 0

\* the members of an OrderedDict in the order of its hash table, which
\* dict.__eq__ walks
TableOrder(items) == DictOfPairs(items).e

\* the smaller of two lengths
Shorter(m, n) == IF m < n THEN m ELSE n

\* the keys of the members, in their order
Keys(items) == [i \in 1..Len(items) |-> items[i].s]

\* OrderedDict.__eq__ on two OrderedDicts, c being what dict.__eq__ gave:
\* dict.__eq__(self, other) and all(_imap(_eq, self, other))
OrderedEq(a, b, c) ==
    IF c # "eq" THEN c ELSE IF Keys(a.e) = Keys(b.e) THEN "eq" ELSE "ne"

\* tuple == tuple, c being how the elements of the common length compared
TupleEq(a, b, c) ==
    IF c # "eq" THEN c ELSE IF Len(a.e) = Len(b.e) THEN "eq" ELSE "ne"

PyCmp(a, b) ==
    IF a.k \in {"int", "bool", "fake_number"}
      THEN IF b.k \in {"int", "bool", "fake_number"} /\ a.n = b.n
             THEN "eq" ELSE "ne"
    ELSE IF a.k \in {"dict", "OrderedDict"} /\ b.k \in {"dict", "OrderedDict"}
      THEN IF a.k = "OrderedDict" /\ b.k = "OrderedDict"
             THEN OrderedEq(a, b, IF Len(a.e) # Len(b.e) THEN "ne"
                                  ELSE CmpDict(TableOrder(a.e), b, 1))
           ELSE IF Len(a.e) # Len(b.e) THEN "ne"
           ELSE IF a.k = "OrderedDict" THEN CmpDict(TableOrder(a.e), b, 1)
           ELSE IF b.k = "OrderedDict" THEN CmpDict(TableOrder(b.e), a, 1)
           ELSE CmpDict(a.e, b, 1)
    ELSE IF a.k # b.k THEN "ne"
    ELSE IF a.k = "None" THEN "eq"
    ELSE IF a.k \in {"str", "type"} THEN (IF a.s = b.s THEN "eq" ELSE "ne")
    ELSE IF a.k = "datetime" THEN DateTimeCmp(a, b)
    ELSE IF a.k = "list"
      THEN IF Len(a.e) # Len(b.e) THEN "ne"
           ELSE CmpSeq(a.e, b.e, 1, Len(a.e))
    ELSE IF a.k = "tuple"
      THEN TupleEq(a, b, CmpSeq(a.e, b.e, 1, Shorter(Len(a.e), Len(b.e))))
    ELSE "ne"

\* c: how element i of the two sequences compared
SeqFrom(as, bs, i, n, c) == IF c = "eq" THEN CmpSeq(as, bs, i + 1, n) ELSE c

\* elements i to n of the two sequences, up to the first that is not equal
CmpSeq(as, bs, i, n) ==
    IF i > n THEN "eq" ELSE SeqFrom(as, bs, i, n, PyCmp(as[i], bs[i]))

\* c: how the value of member i of a compared with the value b holds
MemberFrom(as, b, i, c) == IF c = "eq" THEN CmpDict(as, b, i + 1) ELSE c

\* m: where b holds the key of member i of a
MemberAt(as, b, i, m) ==
    IF m = 0 THEN "ne"
    ELSE MemberFrom(as, b, i, PyCmp(as[i].e[1], b.e[m].e[1]))

CmpDict(as, b, i) ==
    IF i > Len(as) THEN "eq" ELSE MemberAt(as, b, i, MemberIndex(b, as[i].s))

PyEq(a, b) == PyCmp(a, b) = "eq"

\* bool(x): None, zero and every empty sized object (an xrange has
\* __len__) are false
Truthy(x) ==
    IF x.k = "None" THEN FALSE
    ELSE IF x.k \in {"int", "bool", "fake_number"} THEN x.n # 0
    ELSE IF x.k = "str" THEN x.s # ""
    ELSE IF x.k \in {"list", "tuple", "dict", "OrderedDict", "xrange"}
      THEN x.e # <<>>
    ELSE TRUE

\* ------------------------------------------------------------- state
VARIABLES
    VALIDATE,   \* the module flag
    fschema,    \* the schema attribute of each raw function (NoSchema: none)
    wrappers,   \* the wrappers validate(...) has produced, by name: the
                \* function f and the do_validation of the closure, the
                \* wrapper's own schema attribute, and (bound) the schema
                \* f carried as the wrapper was made
    input,      \* the argument and expected output a test supplies
    last        \* the last operation: its inputs, its steps and its outcome

vars == <<VALIDATE, fschema, wrappers, input, last>>

\* the module's four decorated consumers, and one name for a wrapper that
\* client code makes later
ModuleConsumers == RawFns \ {"client_fn"}
WrapperIds == ModuleConsumers \cup {"client"}

NoWrapper == [made |-> FALSE, f |-> "client_fn", do_validation |-> FALSE,
              schema |-> NoSchema, bound |-> NoSchema]

SchemaAtLoad(f) ==
    IF f = "seq_consumer" THEN ArraySchema
    ELSE IF f = "client_fn" THEN NoSchema
    ELSE NumberSchema

Idle == [op |-> "none", fn |-> "", arg |-> PyNone, expected |-> PyNone,
         events |-> <<>>, out |-> Returned(PyNone), after |-> PyNone,
         flag |-> TRUE, schema |-> NoSchema]

\* the state once the module is imported: VALIDATE = True, each consumer
\* tagged by schema(...) and then wrapped by validate(VALIDATE)
Loaded ==
    /\ VALIDATE = TRUE
    /\ fschema = [f \in RawFns |-> SchemaAtLoad(f)]
    /\ wrappers = [w \in WrapperIds |->
                     IF w = "client" THEN NoWrapper
                     ELSE [made |-> TRUE, f |-> w, do_validation |-> TRUE,
                           schema |-> SchemaAtLoad(w), bound |-> SchemaAtLoad(w)]]
    /\ last = Idle

\* ------------------------------------------------------------- validate
\* the flag read when the wrapper is called
DoValidation_ReadsFlag(w) == VALIDATE

\* the do_validation the wrapper's closure holds
DoValidation(w) == wrappers[w].do_validation

\* the schema attribute of the wrapper itself
SchemaRead_OfWrapper(w) == wrappers[w].schema

\* f.schema as the wrapper reads it when called
SchemaRead(w) == fschema[wrappers[w].f]

\* the call of f once the argument passed validation (or none was asked)
Invoke(b, events, sch) ==
    [out |-> b.out, after |-> b.after, events |-> events, schema |-> sch]

\* the validating branch skipping the check when f carries no schema
wrapper_validating_SkipsMissing(w, sd, sch) ==
    IF sd.out.exc # "none"
      THEN [out |-> sd.out, after |-> sd.after,
            events |-> <<"serial_deserial">>, schema |-> NoSchema]
    ELSE IF sch # NoSchema /\ ~Conforms(sd.out.val, sch)
      THEN [out |-> ValidationError(sd.out.val, sch), after |-> sd.after,
            events |-> <<"serial_deserial", "validate">>, schema |-> sch]
    ELSE Invoke(Body(wrappers[w].f, sd.after),
                <<"serial_deserial", "validate", "body">>, sch)

\* the validating branch without the raise: f runs whatever the validator said
wrapper_validating_FailOpen(w, sd, sch) ==
    IF sd.out.exc # "none"
      THEN [out |-> sd.out, after |-> sd.after,
            events |-> <<"serial_deserial">>, schema |-> NoSchema]
    ELSE IF sch = NoSchema
      THEN [out |-> Raised("AttributeError", PyStr("schema")), after |-> sd.after,
            events |-> <<"serial_deserial">>, schema |-> NoSchema]
    ELSE Invoke(Body(wrappers[w].f, sd.after),
                <<"serial_deserial", "validate", "body">>, sch)

\* jsonschema.validate(deserialized, f.schema), then f(arg); sd is what
\* serial_deserial(arg) gave and sch what f.schema reads
wrapper_validating(w, sd, sch) ==
    IF sd.out.exc # "none"
      THEN [out |-> sd.out, after |-> sd.after,
            events |-> <<"serial_deserial">>, schema |-> NoSchema]
    ELSE IF sch = NoSchema
      THEN [out |-> Raised("AttributeError", PyStr("schema")), after |-> sd.after,
            events |-> <<"serial_deserial">>, schema |-> NoSchema]
    ELSE IF ~Conforms(sd.out.val, sch)
      THEN [out |-> ValidationError(sd.out.val, sch), after |-> sd.after,
            events |-> <<"serial_deserial", "validate">>, schema |-> sch]
    ELSE Invoke(Body(wrappers[w].f, sd.after),
                <<"serial_deserial", "validate", "body">>, sch)

\* the round trip's result handed to f when no validation is asked
PassRoundTripped(w, sd) ==
    IF sd.out.exc # "none"
      THEN [out |-> sd.out, after |-> sd.after, events |-> <<"body">>,
            schema |-> NoSchema]
      ELSE Invoke(Body(wrappers[w].f, sd.out.val), <<"body">>, NoSchema)

\* wrapper with the round trip outside the test of do_validation
wrapper_AlwaysRoundTrips(w, arg) ==
    IF DoValidation(w)
      THEN wrapper_validating(w, serial_deserial(arg), SchemaRead(w))
      ELSE PassRoundTripped(w, serial_deserial(arg))

\* wrapper(arg) of wrapper w: [out, after, events, schema]
wrapper(w, arg) ==
    IF DoValidation(w)
      THEN wrapper_validating(w, serial_deserial(arg), SchemaRead(w))
      ELSE Invoke(Body(wrappers[w].f, arg), <<"body">>, NoSchema)

\* ------------------------------------------------------------- assert_ijsonable
Checked(out, after, events) == [out |-> out, after |-> after, events |-> events]

\* if expected_output: json.dumps(expected_output), d being what dumps gave
ThirdCheck(sd, d) ==
    Checked(IF d.ok THEN Returned(PyNone) ELSE d.err, sd.after,
            <<"call", "serial_deserial", "call", "dumps">>)

\* SecondAssert without its comparison
SecondAssert_NoCompare(expected_output, sd, c2) ==
    IF c2.out.exc # "none"
      THEN Checked(c2.out, sd.after, <<"call", "serial_deserial", "call">>)
    ELSE IF Truthy(expected_output)
      THEN ThirdCheck(sd, dumps(expected_output, FALSE))
    ELSE Checked(Returned(PyNone), sd.after, <<"call", "serial_deserial", "call">>)

\* assert c2 == expected_output, c2 being f(serial_deserial(input))
SecondAssert(expected_output, sd, c2) ==
    IF c2.out.exc # "none"
      THEN Checked(c2.out, sd.after, <<"call", "serial_deserial", "call">>)
    ELSE IF PyCmp(c2.out.val, expected_output) = "raise"
      THEN Checked(Raised("TypeError", c2.out.val), sd.after,
                   <<"call", "serial_deserial", "call">>)
    ELSE IF ~PyEq(c2.out.val, expected_output)
      THEN Checked(Raised("AssertionError", c2.out.val), sd.after,
                   <<"call", "serial_deserial", "call">>)
    ELSE IF Truthy(expected_output)
      THEN ThirdCheck(sd, dumps(expected_output, FALSE))
    ELSE Checked(Returned(PyNone), sd.after, <<"call", "serial_deserial", "call">>)

\* f(serial_deserial(input)), sd being what serial_deserial(input) gave
SecondCall(f, expected_output, sd) ==
    IF sd.out.exc # "none"
      THEN Checked(sd.out, sd.after, <<"call", "serial_deserial">>)
      ELSE SecondAssert(expected_output, sd, wrapper(f, sd.out.val))

\* assert c1 == expected_output, c1 being f(input)
FirstAssert(f, expected_output, c1) ==
    IF c1.out.exc # "none" THEN Checked(c1.out, c1.after, <<"call">>)
    ELSE IF PyCmp(c1.out.val, expected_output) = "raise"
      THEN Checked(Raised("TypeError", c1.out.val), c1.after, <<"call">>)
    ELSE IF ~PyEq(c1.out.val, expected_output)
      THEN Checked(Raised("AssertionError", c1.out.val), c1.after, <<"call">>)
    ELSE SecondCall(f, expected_output, serial_deserial(c1.after))

\* [out: Returned(None) or the error raised, events: the steps reached]
assert_ijsonable(f, arg, expected_output) ==
    FirstAssert(f, expected_output, wrapper(f, arg))

\* ------------------------------------------------------------- actions
\* VALIDATE = not VALIDATE
Toggle ==
    /\ VALIDATE' = ~VALIDATE
    /\ UNCHANGED <<fschema, wrappers, input, last>>

\* schema(json_schema)(f) on a raw function
schema(f, json_schema) ==
    /\ fschema' = [fschema EXCEPT ![f] = json_schema]
    /\ UNCHANGED <<VALIDATE, wrappers, input, last>>

\* schema(json_schema)(w) on a wrapper
schema_on_wrapper(w, json_schema) ==
    /\ wrappers[w].made
    /\ wrappers' = [wrappers EXCEPT ![w].schema = json_schema]
    /\ UNCHANGED <<VALIDATE, fschema, input, last>>

\* client = validate(VALIDATE)(f); functools.wraps copies f's attributes
validate(f) ==
    /\ ~wrappers["client"].made
    /\ wrappers' = [wrappers EXCEPT !["client"] =
                      [made |-> TRUE, f |-> f, do_validation |-> VALIDATE,
                       schema |-> fschema[f], bound |-> fschema[f]]]
    /\ UNCHANGED <<VALIDATE, fschema, input, last>>

CallRecord(w, arg, r) ==
    [op |-> "call", fn |-> w, arg |-> arg, expected |-> PyNone,
     events |-> r.events, out |-> r.out, after |-> r.after,
     flag |-> VALIDATE, schema |-> r.schema]

OpRecord(op, w, arg, expected_output, events, r) ==
    [Idle EXCEPT !.op = op, !.fn = w, !.arg = arg, !.expected = expected_output,
                 !.events = events, !.out = r.out, !.after = r.after]

\* w(arg)
Call(w, arg) ==
    /\ wrappers[w].made
    /\ last' = CallRecord(w, arg, wrapper(w, arg))
    /\ UNCHANGED <<VALIDATE, fschema, wrappers, input>>

AssertRecord(w, arg, expected_output, r) ==
    OpRecord("assert_ijsonable", w, arg, expected_output, r.events, r)

\* assert_ijsonable(w, input, expected_output)
AssertIJsonable(w, arg, expected_output) ==
    /\ wrappers[w].made
    /\ last' = AssertRecord(w, arg, expected_output,
                             assert_ijsonable(w, arg, expected_output))
    /\ UNCHANGED <<VALIDATE, fschema, wrappers, input>>

\* jsonable_handler(obj)
Handler(obj) ==
    /\ last' = OpRecord("jsonable_handler", "", obj, PyNone, <<>>,
                         jsonable_handler(obj))
    /\ UNCHANGED <<VALIDATE, fschema, wrappers, input>>

\* serial_deserial(arg)
RoundTrip(arg) ==
    /\ last' = OpRecord("serial_deserial", "", arg, PyNone, <<>>,
                         serial_deserial(arg))
    /\ UNCHANGED <<VALIDATE, fschema, wrappers, input>>

\* ------------------------------------------------------------- inputs
Ints == 0..MaxInt

SeqsOf(S) == UNION {[1..n -> S] : n \in 0..MaxLen}

\* the elements of xrange(a, b)
Ranges == {[i \in 1..(b - a) |-> PyInt(a + i - 1)] :
             a \in Ints, b \in 0..(MaxInt + 1)}

IsoText == "2013-06-01T12:00:00"

Leaves ==
    {PyInt(n) : n \in Ints} \cup {FakeNumber(n) : n \in Ints} \cup
    {PyStr("foo"), PyNone, PyBool(TRUE), TypeInt, DateTime(IsoText)}

Caps == {"isoformat", "to_json", "__iter__"}

\* instances of user classes with every mix of the three capabilities, two
\* whose to_json returns something that needs converting itself, and one
\* whose to_json returns the object itself
Objs ==
    {Obj(c, IF "isoformat" \in c THEN IsoText ELSE "",
            IF "to_json" \in c THEN <<PyInt(1)>> ELSE <<>>,
            IF "__iter__" \in c THEN <<PyInt(2)>> ELSE <<>>) : c \in SUBSET Caps}
    \cup {Obj({"to_json"}, "", <<XRange(<<PyInt(0), PyInt(1)>>)>>, <<>>),
          Obj({"to_json"}, "", <<TypeInt>>, <<>>),
          Obj({"to_json"}, "", <<Itself>>, <<>>)}

Elems == {PyInt(n) : n \in Ints} \cup {PyStr("foo"), TypeInt, FakeNumber(2)}

Level1 ==
    UNION {{PyList(e), PyTuple(e), Iter(e)} : e \in SeqsOf(Elems)}
    \cup {XRange(r) : r \in Ranges}

Inner == {PyInt(0), XRange(<<PyInt(0)>>), XRange(<<PyInt(0), PyInt(1)>>),
          Iter(<<PyInt(1)>>), PyList(<<TypeInt>>), DateTime(IsoText),
          Obj({"to_json"}, "", <<PyStr("foo")>>, <<>>)}

Level2 == UNION {{PyList(e), Iter(e)} : e \in SeqsOf(Inner)}

\* OrderedDict([(k1, 0), (k2, 1)])
Ordered(k1, k2) == OrderedDict(<<Item(k1, PyInt(0)), Item(k2, PyInt(1))>>)

AwareText == "2013-06-01T12:00:00+00:00"

\* OrderedDict([('b', vb), ('a', va)]); its hash table holds 'a' before 'b'
Dated(vb, va) == OrderedDict(<<Item("b", vb), Item("a", va)>>)

Dicts ==
    {PyDict(<<>>)} \cup {PyDict(<<Item("a", v)>>) : v \in Inner}
      \cup {Ordered("b", "a"), PyList(<<Ordered("b", "a")>>),
            PyList(<<Dated(PyInt(0), DateTime(IsoText))>>),
            PyList(<<Dated(DateTime(IsoText), PyInt(1))>>),
            PyTuple(<<DateTime(IsoText)>>)}

Args == Leaves \cup Objs \cup Level1 \cup Level2 \cup Dicts

\* [v, v]
Twice(v) == PyList(<<v, v>>)

\* the last eight are what a consumer that doubles a list returns, or nearly:
\* datetimes, naive and aware; OrderedDicts filled in the same and in the
\* other order; the plain dict {'a': 1, 'b': 0}; OrderedDicts that hold an
\* aware datetime and a number; a tuple of one aware datetime
Expected ==
    {PyInt(2 * n) : n \in Ints} \cup
    {PyNone, TypeInt, PyList(<<>>), PyList(<<PyInt(2), PyInt(4)>>)} \cup
    {Twice(DateTime(IsoText)), Twice(DateTimeTz(AwareText, 1)),
     Twice(Ordered("b", "a")), Twice(OrderedDict(<<Item("a", PyInt(1)),
                                                   Item("b", PyInt(0))>>)),
     Twice(PyDict(<<Item("a", PyInt(1)), Item("b", PyInt(0))>>)),
     Twice(Dated(PyInt(1), DateTimeTz(AwareText, 1))),
     Twice(Dated(DateTimeTz(AwareText, 1), PyInt(2))),
     PyTuple(<<DateTimeTz(AwareText, 1)>>)}

SmallArgs == {PyInt(1), PyStr("foo"), TypeInt, FakeNumber(2),
              PyList(<<PyInt(1), PyInt(2)>>), PyList(<<PyStr("foo")>>),
              Iter(<<PyInt(1), PyInt(2)>>)}

TaggableFns == {"number_consumer"}
TaggableWrappers == {"number_consumer", "client"}

\* ------------------------------------------------------------- specifications
\* the module in use: the flag toggled, functions tagged and wrapped, calls
Init ==
    /\ Loaded
    /\ input = [arg |-> PyNone, expected |-> PyNone]

Next ==
    \/ Toggle
    \/ \E f \in TaggableFns, s \in Schemas : schema(f, s)
    \/ \E w \in TaggableWrappers, s \in Schemas : schema_on_wrapper(w, s)
    \/ \E f \in RawFns : validate(f)
    \/ \E w \in WrapperIds, arg \in SmallArgs : Call(w, arg)

Spec == Init /\ [][Next]_vars

\* the module imported, and client = validate(False)(client_fn) made since
LoadedWithClient ==
    /\ VALIDATE = TRUE
    /\ fschema = [f \in RawFns |-> SchemaAtLoad(f)]
    /\ wrappers = [w \in WrapperIds |->
                     IF w = "client"
                       THEN [NoWrapper EXCEPT !.made = TRUE]
                       ELSE [made |-> TRUE, f |-> w, do_validation |-> TRUE,
                             schema |-> SchemaAtLoad(w), bound |-> SchemaAtLoad(w)]]
    /\ last = Idle

\* one call, or one assert_ijsonable, of a wrapper on a drawn input
InitCall ==
    /\ LoadedWithClient
    /\ input \in [arg : Args, expected : Expected]

NextCall ==
    \/ \E w \in WrapperIds : last.op = "none" /\ Call(w, input.arg)
    \/ \E w \in WrapperIds :
         last.op = "none" /\ AssertIJsonable(w, input.arg, input.expected)

SpecCall == InitCall /\ [][NextCall]_vars

\* jsonable_handler and serial_deserial on a drawn input
InitPure ==
    /\ Loaded
    /\ input \in [arg : Args, expected : {PyNone}]

NextPure ==
    \/ last.op = "none" /\ Handler(input.arg)
    \/ last.op = "none" /\ RoundTrip(input.arg)

SpecPure == InitPure /\ [][NextPure]_vars

\* ------------------------------------------------------------- properties
Did(step) == \E i \in 1..Len(last.events) : last.events[i] = step

ValidatingCall == last.op = "call" /\ wrappers[last.fn].do_validation

\* C1: a validating wrapper runs f only after serial_deserial(arg) returned and
\* the validator accepted its result against f's schema; when the round-tripped
\* value does not conform the call raises the validation error, carrying the
\* schema and the value, and f is not run
ValidationGate ==
    ValidatingCall =>
      /\ Did("body") =>
           /\ last.events = <<"serial_deserial", "validate", "body">>
           /\ serial_deserial(last.arg).out.exc = "none"
           /\ Conforms(serial_deserial(last.arg).out.val, fschema[wrappers[last.fn].f])
      /\ ( /\ serial_deserial(last.arg).out.exc = "none"
           /\ ~Conforms(serial_deserial(last.arg).out.val,
                        fschema[wrappers[last.fn].f]) ) =>
           /\ ~Did("body")
           /\ last.out = ValidationError(serial_deserial(last.arg).out.val,
                                         fschema[wrappers[last.fn].f])

\* a lazy sequence of strings is rejected by the array consumer, unrun
ValidationGateWitness ==
    /\ ValidatingCall
    /\ last.fn = "seq_consumer"
    /\ last.arg = Iter(<<PyStr("foo"), PyStr("foo")>>)
    /\ last.out.exc = "ValidationError"
    /\ ~Did("body")

\* C2: a validating wrapper that accepts its argument returns what f returns
\* on the argument as the caller supplied it
OriginalArgumentPreserved ==
    (ValidatingCall /\ Did("body")) =>
      last.out = Body(wrappers[last.fn].f, last.arg).out

\* f(serial_deserial(x)), x being the argument as the caller supplied it
SecondResult == wrapper(last.fn, serial_deserial(last.arg).out.val)

\* f(x) == f(serial_deserial(x)), f(x) being the call the state records
SameUnderRoundTrip ==
    /\ serial_deserial(last.arg).out.exc = "none"
    /\ SecondResult.out.exc = "none"
    /\ PyEq(last.out.val, SecondResult.out.val)

AcceptedByConsumer ==
    /\ ValidatingCall
    /\ last.fn \in {"number_consumer", "number_consumer_no_return", "seq_consumer"}
    /\ Did("body")

\* behaviour the round trip does not carry over: an int subclass with
\* arithmetic of its own, an object converted through its to_json
HiddenBehaviour(v) == v.k = "fake_number" \/ HasAttr(v, "to_json")

\* x, or one of its elements, has such behaviour
CarriesBehaviour(x) ==
    HiddenBehaviour(x) \/ \E i \in 1..Len(x.e) : HiddenBehaviour(x.e[i])

\* an iterator, which can be gone through once
OneShot(x) == x.k = "iter"

\* C6 as stated: for each of the three consumers and every input x its
\* validation accepts, f(x) == f(serial_deserial(x))
RoundTripIdempotent == AcceptedByConsumer => SameUnderRoundTrip

\* C6 as amended: it holds for number_consumer_no_return on every accepted
\* input, and for the other two on every accepted input that is no one-shot
\* iterator and carries no behaviour of its own
RoundTripIdempotentOnPlainData ==
    /\ (AcceptedByConsumer /\ last.fn = "number_consumer_no_return") =>
         SameUnderRoundTrip
    /\ (AcceptedByConsumer /\ ~OneShot(last.arg) /\ ~CarriesBehaviour(last.arg)) =>
         SameUnderRoundTrip

\* an instance of a user class that iterates over 2, through seq_consumer:
\* [4] both ways
RoundTripIdempotentWitness ==
    /\ AcceptedByConsumer
    /\ last.arg = Obj({"__iter__"}, "", <<>>, <<PyInt(2)>>)
    /\ last.out = Returned(PyList(<<PyInt(4)>>))
    /\ SecondResult.out = Returned(PyList(<<PyInt(4)>>))
    /\ SameUnderRoundTrip

\* the three checks of assert_ijsonable, each evaluated on its own
FirstResult == wrapper(last.fn, last.arg)

FirstHolds ==
    FirstResult.out.exc = "none" /\ PyEq(FirstResult.out.val, last.expected)

InputRoundTrip == serial_deserial(FirstResult.after)

RoundTripResult == wrapper(last.fn, InputRoundTrip.out.val)

SecondHolds ==
    /\ InputRoundTrip.out.exc = "none"
    /\ RoundTripResult.out.exc = "none"
    /\ PyEq(RoundTripResult.out.val, last.expected)

ExpectedSerializable == dumps(last.expected, FALSE).ok

ThirdHolds == ~Truthy(last.expected) \/ ExpectedSerializable

\* f(input) returned a value that differs from the expected output
FirstDiffers ==
    /\ FirstResult.out.exc = "none"
    /\ PyCmp(FirstResult.out.val, last.expected) = "ne"

\* f(serial_deserial(input)) returned a value that differs from it
SecondDiffers ==
    /\ InputRoundTrip.out.exc = "none"
    /\ RoundTripResult.out.exc = "none"
    /\ PyCmp(RoundTripResult.out.val, last.expected) = "ne"

\* one of the two comparisons is reached and raises
ComparisonRaises ==
    \/ /\ FirstResult.out.exc = "none"
       /\ PyCmp(FirstResult.out.val, last.expected) = "raise"
    \/ /\ FirstHolds
       /\ InputRoundTrip.out.exc = "none"
       /\ RoundTripResult.out.exc = "none"
       /\ PyCmp(RoundTripResult.out.val, last.expected) = "raise"

AssertOutcome ==
    /\ (last.out.exc = "none") <=> (FirstHolds /\ SecondHolds /\ ThirdHolds)
    /\ FirstDiffers => last.out.exc = "AssertionError"
    /\ (FirstHolds /\ SecondDiffers) => last.out.exc = "AssertionError"

\* C7 as stated: assert_ijsonable returns exactly when the three checks hold,
\* raises AssertionError when a result differs from the expected output, and
\* raises TypeError when a truthy expected output is not serializable
AssertIJsonableContract ==
    last.op = "assert_ijsonable" =>
      /\ AssertOutcome
      /\ (Truthy(last.expected) /\ ~ExpectedSerializable) =>
           last.out.exc = "TypeError"

\* C7 as amended: the three checks run in order; the TypeError of the third
\* is raised when the two comparisons passed, and a comparison that raises
\* passes its error on
AssertIJsonableInOrder ==
    last.op = "assert_ijsonable" =>
      /\ AssertOutcome
      /\ (FirstHolds /\ SecondHolds /\ ~ThirdHolds) =>
           last.out = Raised("TypeError", last.expected)
      /\ last.out.exc = "TypeError" /\ Did("dumps") => ~ThirdHolds
      /\ ComparisonRaises => (last.out.exc = "TypeError" /\ ~Did("dumps"))

\* number_consumer_bad_return returns the type int both times, the expected
\* output is that type, and only the final dumps raises
AssertIJsonableWitness ==
    /\ last.op = "assert_ijsonable"
    /\ last.fn = "number_consumer_bad_return"
    /\ last.arg = PyInt(2)
    /\ last.expected = TypeInt
    /\ FirstHolds /\ SecondHolds
    /\ last.events = <<"call", "serial_deserial", "call", "dumps">>
    /\ last.out = Raised("TypeError", TypeInt)

\* what converts obj, if anything: the first of the three capabilities it has
FirstCapability(obj) ==
    IF "isoformat" \in obj.c THEN "isoformat"
    ELSE IF "to_json" \in obj.c THEN "to_json"
    ELSE IF IsIterable(obj) THEN "__iter__"
    ELSE "none"

\* C4: jsonable_handler converts a value by the first rule that matches, in
\* the order isoformat, to_json, iteration (into the list of its elements, in
\* order), by that rule only, and raises TypeError naming the value when no
\* rule matches
OrderedDispatch ==
    last.op = "jsonable_handler" =>
      /\ FirstCapability(last.arg) = "isoformat" =>
           last.out = Returned(PyStr(last.arg.s))
      /\ FirstCapability(last.arg) = "to_json" =>
           last.out = Returned(last.arg.j[1])
      /\ FirstCapability(last.arg) = "__iter__" =>
           /\ last.out.exc = "none"
           /\ last.out.val.k = "list"
           /\ Len(last.out.val.e) = Len(Elements(last.arg))
           /\ \A i \in 1..Len(Elements(last.arg)) :
                last.out.val.e[i] = Elements(last.arg)[i]
      /\ FirstCapability(last.arg) = "none" =>
           last.out = Raised("TypeError", last.arg)

\* an object with all three capabilities is converted by isoformat
OrderedDispatchWitness ==
    /\ last.op = "jsonable_handler"
    /\ last.arg.c = Caps
    /\ last.arg.j # <<>> /\ last.arg.e # <<>>
    /\ last.out = Returned(PyStr(IsoText))

\* built only from number, string, boolean, null, list and string-keyed dict
RECURSIVE IsJson(_)
IsJson(x) ==
    \/ x.k \in {"int", "str", "bool", "None"}
    \/ /\ x.k = "list"
       /\ \A i \in 1..Len(x.e) : IsJson(x.e[i])
    \/ /\ x.k = "dict"
       /\ \A i \in 1..Len(x.e) :
            x.e[i].k = "item" /\ Len(x.e[i].e) = 1 /\ IsJson(x.e[i].e[1])

\* no value without a conversion is reached while x is encoded
RECURSIVE Convertible(_)
Convertible(x) ==
    IF x.k \in {"int", "fake_number", "str", "bool", "None"} THEN TRUE
    ELSE IF x.k \in {"list", "tuple", "dict", "OrderedDict", "item"}
      THEN \A i \in 1..Len(x.e) : Convertible(x.e[i])
    ELSE IF FirstCapability(x) = "isoformat" THEN TRUE
    ELSE IF FirstCapability(x) = "to_json" THEN Convertible(x.j[1])
    ELSE IF FirstCapability(x) = "__iter__"
      THEN \A i \in 1..Len(x.e) : Convertible(x.e[i])
    ELSE FALSE

\* C5 as stated: serial_deserial either raises the handler's TypeError, when
\* a value without a conversion is reached, or returns a value built only
\* from the JSON shapes, at every depth
RoundTripClosure ==
    last.op = "serial_deserial" =>
      IF Convertible(last.arg)
        THEN last.out.exc = "none" /\ IsJson(last.out.val)
        ELSE /\ last.out.exc = "TypeError"
             /\ FirstCapability(last.out.val) = "none"
             /\ last.out.val.k \notin {"int", "fake_number", "str", "bool", "None",
                                       "list", "tuple", "dict", "OrderedDict",
                                       "item"}

\* C3: a wrapper made by validate(False) does no round trip and no validation,
\* and its outcome, and what it does to the argument, are those of f called
\* directly, whatever the argument
DisabledIsPassThrough ==
    (last.op = "call" /\ ~wrappers[last.fn].do_validation) =>
      /\ last.events = <<"body">>
      /\ last.out = Body(wrappers[last.fn].f, last.arg).out
      /\ last.after = Body(wrappers[last.fn].f, last.arg).after

\* a disabled wrapper of the array consumer doubles the characters of a str
\* its schema would reject
DisabledIsPassThroughWitness ==
    /\ last.op = "call"
    /\ ~wrappers[last.fn].do_validation
    /\ wrappers[last.fn].f = "seq_consumer"
    /\ last.arg = PyStr("foo")
    /\ last.out = Returned(PyList(<<PyStr("ff"), PyStr("oo"), PyStr("oo")>>))

\* C8: a wrapper validates exactly when the flag was true as it was made,
\* whatever the flag is when it is called
DecorationCapturesFlag ==
    last.op = "call" =>
      (Did("serial_deserial") <=> wrappers[last.fn].do_validation)

\* the flag was toggled between decoration and call, both ways round
DecorationCapturesFlagWitness ==
    /\ last.op = "call"
    /\ last.fn = "client"
    /\ ~wrappers["client"].do_validation
    /\ last.flag = TRUE
    /\ last.events = <<"body">>

\* C9 as stated: the schema a validating wrapper checks against is the one
\* its function carried when the wrapper was made, on every later call
SchemaBoundAtDecoration ==
    (ValidatingCall /\ Did("validate")) => last.schema = wrappers[last.fn].bound

\* C9 as amended: it is the schema the wrapped function carries when the call
\* is made; tagging the wrapper does not change it, tagging the function does
SchemaReadAtCall ==
    [][(last' # last /\ last'.op = "call" /\ last'.schema # NoSchema) =>
         last'.schema = fschema[wrappers[last'.fn].f]]_vars

\* number_consumer, made around a number schema, rejects against the array
\* schema its function was tagged with later, while itself tagged otherwise
SchemaReadAtCallWitness ==
    /\ ValidatingCall
    /\ last.fn = "number_consumer"
    /\ wrappers[last.fn].bound = NumberSchema
    /\ wrappers[last.fn].schema = NumberSchema
    /\ last.out = ValidationError(PyInt(1), ArraySchema)

MissingSchemaCall ==
    /\ ValidatingCall
    /\ fschema[wrappers[last.fn].f] = NoSchema

\* C10 as stated: every call of a validating wrapper around a function with no
\* schema raises the missing-schema error and does not run the function
MissingSchemaRaises ==
    MissingSchemaCall => (last.out.exc = "AttributeError" /\ ~Did("body"))

\* C10 as amended: every such call raises before the function is run: the
\* round trip's TypeError when the argument cannot be serialized, the
\* missing-schema error otherwise
MissingSchemaFailsClosed ==
    MissingSchemaCall =>
      /\ ~Did("body")
      /\ IF serial_deserial(last.arg).out.exc = "none"
           THEN last.out.exc = "AttributeError"
           ELSE last.out = serial_deserial(last.arg).out

\* the reverse order: schema(...) applied on top of the wrapper
MissingSchemaFailsClosedWitness ==
    /\ MissingSchemaCall
    /\ last.fn = "client"
    /\ wrappers["client"].schema = NumberSchema
    /\ last.arg = PyInt(1)
    /\ last.out.exc = "AttributeError"

====
